---------------------------- MODULE Spec2Model ----------------------------
(***************************************************************************)
(* A model of the streaming evaluation metrics of ppgs                     *)
(* (src/ppgs/evaluate/metrics.py) and of the CTC blank-collapse backend    *)
(* (src/ppgs/assets/configs/w2v2fb-ctc.py).                                *)
(*                                                                         *)
(* Numbers.  Real-valued tensors are fixed-point integers in tenths        *)
(* (16 is 1.6), products of two such numbers are kept in hundredths.  exp  *)
(* and log are the tables FxExp and FxLog, rounded to the nearest tenth,   *)
(* over the values the inputs of the model produce.  A Python number and   *)
(* a 0-dimensional tensor are told apart ([tensor |-> ...]) because their  *)
(* division by zero differs: ZeroDivisionError against nan.                *)
(*                                                                         *)
(* Tensors.  A [N, C] tensor is a record [C |-> C, data |-> <<row, ...>>]  *)
(* whose rows are tuples of length C; class c is position c + 1 of a row.  *)
(* A [N] tensor is a tuple.  The empty batch keeps its class count.        *)
(***************************************************************************)
EXTENDS Integers, Sequences, FiniteSets, TLC

VARIABLES
    metrics,      \* the Metrics aggregate: one state per accumulator
    twin,         \* a second Metrics, fed the same batches without their ignored rows
    fed,          \* the rows given to metrics.update since the last reset, in order
    lastBatch,    \* the rows of the last update since the last reset, None before it
    prev,         \* metrics as it was before that update
    report,       \* what the last operation returned, if it was Metrics.__call__
    resets,       \* how many resets were made in a row just now (capped)
    cat,          \* a CategoricalAccuracy instance used on its own
    catPrev,      \* cat before its last update
    catBatch,     \* the batch of cat's last update
    catRaised,    \* the exception cat's last update ended in, or "none"
    catUpdates,   \* number of updates cat received since its reset
    jsIn,         \* the two batches given to jensenShannonDivergence
    jsOut,        \* its results: on the first, the second, and the stacked batch
    ctcIn,        \* the tensor handed to _backend, as it was at the call
    ctc           \* _backend's frame: logits (mutated in place), predictions, loop state

vars == <<metrics, twin, fed, lastBatch, prev, report, resets,
          cat, catPrev, catBatch, catRaised, catUpdates, jsIn, jsOut, ctcIn, ctc>>

metricsVars == <<metrics, twin, fed, lastBatch, prev, report, resets>>
catVars == <<cat, catPrev, catBatch, catRaised, catUpdates>>
jsVars == <<jsIn, jsOut>>
ctcVars == <<ctcIn, ctc>>

-----------------------------------------------------------------------------
(* Bounds of the model *)

\* rows in one batch given to Metrics.update
MaxBatch == 2
\* rows given to Metrics.update between two resets
MaxRows == 3
\* rows in one batch given to CategoricalAccuracy.update on its own
MaxCatBatch == 1
\* updates of the stand-alone CategoricalAccuracy between two resets
MaxCatUpdates == 3
\* rows in each of the two batches given to jensenShannonDivergence
MaxJsdRows == 1
\* timesteps of the tensor given to _backend
MaxTime == 3

-----------------------------------------------------------------------------
(* Program constants *)

\* the ignore sentinel of the targets
IGNORE == -100
\* the blank class of the CTC backend
BLANK == 40

\* Python's None, and a value that is not None
None == [none |-> TRUE]
Some(x) == [none |-> FALSE, val |-> x]

-----------------------------------------------------------------------------
(* Numbers *)

PyNum(v) == [tensor |-> FALSE, v |-> v]
Tensor0d(v) == [tensor |-> TRUE, v |-> v]

\* a = b where the code has a += b
IAdd_assign(a, b) == [tensor |-> a.tensor \/ b.tensor, v |-> b.v]

\* a += b: the sum is a tensor as soon as one operand is
IAdd(a, b) == [tensor |-> a.tensor \/ b.tensor, v |-> a.v + b.v]

RECURSIVE Gcd(_, _)
Gcd(a, b) == IF b = 0 THEN a ELSE Gcd(b, a % b)

Abs(x) == IF x < 0 THEN -x ELSE x

\* a / b as the code's reports compute it: Python numbers raise on a zero
\* divisor, tensors give nan (0/0) or inf; a finite quotient is the fraction in
\* lowest terms.
TrueDiv(a, b) ==
    IF b.v = 0
    THEN IF ~(a.tensor \/ b.tensor) THEN [kind |-> "ZeroDivisionError"]
         ELSE IF a.v = 0 THEN [kind |-> "nan"] ELSE [kind |-> "inf"]
    ELSE LET g == Gcd(Abs(a.v), b.v)
         IN  [kind |-> "float", num |-> a.v \div g, den |-> b.v \div g]

IsRaised(r) == r.kind \in {"ZeroDivisionError", "TypeError", "RuntimeError"}

\* exp on tenths
FxExp(x) ==
    CASE x = 0 -> 10
      [] x = 7 -> 20
      [] x = 11 -> 30
      [] x = 14 -> 41
      [] x = 16 -> 50
      [] x = -5 -> 6
      [] x = -9 -> 4
      [] x = -16 -> 2
      [] x = 115 -> 999990
      [] x = -115 -> 0

\* log on tenths, of a positive number
FxLog(y) ==
    CASE y = 1 -> -23
      [] y = 2 -> -16
      [] y = 3 -> -12
      [] y = 4 -> -9
      [] y = 5 -> -7
      [] y = 6 -> -5
      [] y = 7 -> -4
      [] y = 8 -> -2
      [] y = 9 -> -1
      [] y = 10 -> 0
      [] y = 151 -> 27
      [] y = 160 -> 28

RECURSIVE SqrtSearch(_, _, _)
SqrtSearch(x, lo, hi) ==
    IF lo = hi THEN lo
    ELSE LET mid == (lo + hi + 1) \div 2
         IN  IF mid * mid <= x THEN SqrtSearch(x, mid, hi)
             ELSE SqrtSearch(x, lo, mid - 1)

\* sqrt of a number in hundredths, in tenths (rounded down)
FxSqrt(x) == SqrtSearch(x, 0, 46340)

-----------------------------------------------------------------------------
(* Tensors *)

RECURSIVE SumSeq(_)
SumSeq(s) == IF s = <<>> THEN 0 ELSE Head(s) + SumSeq(Tail(s))

\* the rows of s, in order, whose index satisfies keep
RECURSIVE SelectIdx(_, _, _)
SelectIdx(s, keep, i) ==
    IF i > Len(s) THEN <<>>
    ELSE (IF keep[i] THEN <<s[i]>> ELSE <<>>) \o SelectIdx(s, keep, i + 1)

\* argmax over the class dimension: the first maximal class
Argmax(row) ==
    (CHOOSE i \in 1..Len(row) :
        /\ \A j \in 1..Len(row) : row[j] <= row[i]
        /\ \A j \in 1..(i - 1) : row[j] < row[i]) - 1

\* torch.topk(row, k).indices, as a set of classes
TopK(row, k) ==
    LET S == CHOOSE S \in SUBSET (1..Len(row)) :
                 /\ Cardinality(S) = k
                 /\ \A i \in S : \A j \in (1..Len(row)) \ S : row[i] >= row[j]
    IN  {i - 1 : i \in S}

one_hot(i, C) == [c \in 1..C |-> IF c = i + 1 THEN 1 ELSE 0]

\* sum(dim=0) of a [N, C] tensor given as a tuple of rows
SumDim0(rows, C) == [c \in 1..C |-> SumSeq([n \in 1..Len(rows) |-> rows[n][c]])]


\* target_indices != -100
KeepMask(target_indices) == [i \in 1..Len(target_indices) |-> target_indices[i] # IGNORE]

-----------------------------------------------------------------------------
(* Accuracy *)

Accuracy_reset == [count |-> PyNum(0), true_positives |-> PyNum(0)]

\* Accuracy.update counting every row, ignored or not
Accuracy_update_unmasked(self, predicted_logits, target_indices) ==
    LET hit == [i \in 1..Len(target_indices) |->
                   IF Argmax(predicted_logits.data[i]) = target_indices[i] THEN 1 ELSE 0]
    IN  [true_positives |-> IAdd(self.true_positives, Tensor0d(SumSeq(hit))),
         count |-> IAdd(self.count, Tensor0d(Len(target_indices)))]

Accuracy_update(self, predicted_logits, target_indices) ==
    LET predicted_indices ==
            [i \in 1..Len(predicted_logits.data) |-> Argmax(predicted_logits.data[i])]
        hit == [i \in 1..Len(target_indices) |->
                   IF predicted_indices[i] = target_indices[i] /\ target_indices[i] # IGNORE
                   THEN 1 ELSE 0]
        kept == [i \in 1..Len(target_indices) |-> IF target_indices[i] # IGNORE THEN 1 ELSE 0]
    IN  [true_positives |-> IAdd(self.true_positives, Tensor0d(SumSeq(hit))),
         count |-> IAdd(self.count, Tensor0d(SumSeq(kept)))]

Accuracy_call(self) == TrueDiv(self.true_positives, self.count)

-----------------------------------------------------------------------------
(* TopKAccuracy *)

TopKAccuracy_reset == [count |-> PyNum(0), correct_in_top_k |-> PyNum(0)]

\* the loop body with the count under the ignore mask
TopKAccuracy_row_masked(self, top_k_indices, target_indices, i) ==
    [correct_in_top_k |->
         IF target_indices[i] \in top_k_indices[i]
         THEN IAdd(self.correct_in_top_k, PyNum(1)) ELSE self.correct_in_top_k,
     count |-> IF target_indices[i] # IGNORE THEN IAdd(self.count, PyNum(1)) ELSE self.count]

\* the body of the loop over the rows, for row i
TopKAccuracy_row(self, top_k_indices, target_indices, i) ==
    [correct_in_top_k |->
         IF target_indices[i] \in top_k_indices[i]
         THEN IAdd(self.correct_in_top_k, PyNum(1)) ELSE self.correct_in_top_k,
     count |-> IAdd(self.count, PyNum(1))]

RECURSIVE TopKAccuracy_loop(_, _, _, _)
TopKAccuracy_loop(self, top_k_indices, target_indices, i) ==
    IF i > Len(target_indices) THEN self
    ELSE TopKAccuracy_loop(TopKAccuracy_row(self, top_k_indices, target_indices, i),
                           top_k_indices, target_indices, i + 1)

\* torch.topk raises when k exceeds the class dimension
TopKAccuracy_update(self, k, predicted_logits, target_indices) ==
    IF k > predicted_logits.C THEN [raised |-> "RuntimeError", self |-> self]
    ELSE LET top_k_indices ==
                 [i \in 1..Len(predicted_logits.data) |-> TopK(predicted_logits.data[i], k)]
         IN  [raised |-> "none",
              self |-> TopKAccuracy_loop(self, top_k_indices, target_indices, 1)]

TopKAccuracy_call(self) == TrueDiv(self.correct_in_top_k, self.count)

-----------------------------------------------------------------------------
(* CategoricalAccuracy *)

CategoricalAccuracy_reset == [totals |-> None, counts |-> None]

\* what a raising statement leaves
Raised(e) == [raised |-> e]
Value(x) == [raised |-> "none", val |-> x]

\* a += b on 1-dimensional tensors: b is broadcast to a's shape when it has one
\* element, any other difference of shapes raises
InplaceAdd(a, b) ==
    IF Len(b) = Len(a) THEN Value([c \in 1..Len(a) |-> a[c] + b[c]])
    ELSE IF Len(b) = 1 THEN Value([c \in 1..Len(a) |-> a[c] + b[1]])
    ELSE Raised("RuntimeError")

\* the per-class hits without the product with the targets
marginal_totals_predicted(predicted_onehots, target_onehots, C) ==
    SumDim0(predicted_onehots, C)

\* torch.mul(predicted_onehots, target_onehots).sum(dim=0)
marginal_totals(predicted_onehots, target_onehots, C) ==
    SumDim0([i \in 1..Len(target_onehots) |->
                [c \in 1..C |-> predicted_onehots[i][c] * target_onehots[i][c]]], C)

CategoricalAccuracy_update(self, predicted_logits, target_indices) ==
    LET C == predicted_logits.C
        keep_indices == KeepMask(target_indices)
        targets == SelectIdx(target_indices, keep_indices, 1)
        logits == SelectIdx(predicted_logits.data, keep_indices, 1)
        predicted_indices == [i \in 1..Len(logits) |-> Argmax(logits[i])]
        predicted_onehots == [i \in 1..Len(logits) |-> one_hot(predicted_indices[i], C)]
        target_onehots == [i \in 1..Len(targets) |-> one_hot(targets[i], C)]
        mt == marginal_totals(predicted_onehots, target_onehots, C)
        marginal_counts == SumDim0(target_onehots, C)
        totals == IF self.totals = None THEN Value(mt)
                  ELSE InplaceAdd(self.totals.val, mt)
        counts == IF self.counts = None THEN Value(marginal_counts)
                  ELSE InplaceAdd(self.counts.val, marginal_counts)
    IN  IF totals.raised # "none" THEN [raised |-> totals.raised, self |-> self]
        ELSE IF counts.raised # "none"
        THEN [raised |-> counts.raised,
              self |-> [self EXCEPT !.totals = Some(totals.val)]]
        ELSE [raised |-> "none",
              self |-> [totals |-> Some(totals.val), counts |-> Some(counts.val)]]

\* None before the first update, else per class: accuracy, total, count
CategoricalAccuracy_call(self) ==
    IF self.totals = None THEN None
    ELSE Some([i \in 1..Len(self.totals.val) |->
             [accuracy |-> TrueDiv(Tensor0d(self.totals.val[i]), Tensor0d(self.counts.val[i])),
              total |-> self.totals.val[i],
              count |-> self.counts.val[i]]])

-----------------------------------------------------------------------------
(* Loss *)

Loss_reset == [total |-> PyNum(0), count |-> PyNum(0)]

\* torch.nn.functional.cross_entropy(..., reduction='sum'): rows whose target is
\* the ignore index (-100 by default) contribute nothing
cross_entropy(predicted_logits, target_indices) ==
    SumSeq([i \in 1..Len(target_indices) |->
        IF target_indices[i] = IGNORE THEN 0
        ELSE LET row == predicted_logits.data[i]
             IN  FxLog(SumSeq([c \in 1..Len(row) |-> FxExp(row[c])]))
                     - row[target_indices[i] + 1]])

Loss_update(self, predicted_logits, target_indices) ==
    LET kept == [i \in 1..Len(target_indices) |-> IF target_indices[i] # IGNORE THEN 1 ELSE 0]
    IN  [total |-> IAdd(self.total, Tensor0d(cross_entropy(predicted_logits, target_indices))),
         count |-> IAdd(self.count, Tensor0d(SumSeq(kept)))]

Loss_call(self) == TrueDiv(self.total, self.count)

-----------------------------------------------------------------------------
(* Jensen-Shannon divergence *)

\* a float that may be nan
Nan == [nan |-> TRUE]
Finite(x) == [nan |-> FALSE, v |-> x]

\* one element of kl_div(torch.log(m), target, reduction="none"), in hundredths:
\* xlogy(target, target) - target * log(m).  log(0) is -inf, and m = 0 only where
\* target = 0 (m is the mean of two non-negative entries): 0 - 0 * -inf is nan.
kl_div_of_log(m, target) ==
    IF m = 0 THEN Nan
    ELSE IF target = 0 THEN Finite(0)
    ELSE Finite(target * (FxLog(target) - FxLog(m)))

\* one element of kl_div(input, target, log_target=True, reduction="none")
kl_div_log_target(input, target) == Finite(FxExp(target) * (target - input))

nan_to_num(x) == IF x.nan THEN 0 ELSE x.v

\* sqrt((kl_pm + kl_qm) / 2) of one row
JsdRow(p, q, as_logits) ==
    LET m == [c \in 1..Len(p) |-> (p[c] + q[c]) \div 2]
        kl_pm == SumSeq([c \in 1..Len(p) |->
                    nan_to_num(IF as_logits THEN kl_div_log_target(m[c], p[c])
                               ELSE kl_div_of_log(m[c], p[c]))])
        kl_qm == SumSeq([c \in 1..Len(p) |->
                    nan_to_num(IF as_logits THEN kl_div_log_target(m[c], q[c])
                               ELSE kl_div_of_log(m[c], q[c]))])
    IN  FxSqrt((kl_pm + kl_qm) \div 2)

\* the reduction of the per-row values over the batch: .sum(dim=0)
JsdReduce(rows) == SumSeq(rows)

\* the mean of the per-row values where the code has their sum
jensenShannonDivergence_mean(p_tensor, q_tensor, as_logits) ==
    IF Len(p_tensor.data) = 0 THEN 0
    ELSE JsdReduce([i \in 1..Len(p_tensor.data) |->
                       JsdRow(p_tensor.data[i], q_tensor.data[i], as_logits)])
             \div Len(p_tensor.data)

jensenShannonDivergence(p_tensor, q_tensor, as_logits) ==
    JsdReduce([i \in 1..Len(p_tensor.data) |->
                  JsdRow(p_tensor.data[i], q_tensor.data[i], as_logits)])

JensenShannon_reset == [total |-> PyNum(0), count |-> PyNum(0)]

\* torch.special.logit(x, eps=1e-5) of a one-hot entry: +-11.5
logit_eps(x) == IF x = 1 THEN 115 ELSE -115

JensenShannon_update(self, predicted_logits, target_indices) ==
    LET C == predicted_logits.C
        keep_indices == KeepMask(target_indices)
        targets == SelectIdx(target_indices, keep_indices, 1)
        logits == SelectIdx(predicted_logits.data, keep_indices, 1)
        target_onehot == [i \in 1..Len(targets) |-> one_hot(targets[i], C)]
        target_logits == [i \in 1..Len(targets) |->
                             [c \in 1..C |-> logit_eps(target_onehot[i][c])]]
        kept == [i \in 1..Len(targets) |-> IF targets[i] # IGNORE THEN 1 ELSE 0]
    IN  [total |-> IAdd(self.total,
                        Tensor0d(jensenShannonDivergence([C |-> C, data |-> logits],
                                                         [C |-> C, data |-> target_logits],
                                                         TRUE))),
         count |-> IAdd(self.count, Tensor0d(SumSeq(kept)))]

JensenShannon_call(self) == TrueDiv(self.total, self.count)

-----------------------------------------------------------------------------
(* Metrics *)

\* the k of the three TopKAccuracy instances
TopKs == {2, 3, 5}

Metrics_reset ==
    [accuracy |-> Accuracy_reset,
     categorical |-> CategoricalAccuracy_reset,
     loss |-> Loss_reset,
     jsd |-> JensenShannon_reset,
     topk |-> [k \in TopKs |-> TopKAccuracy_reset]]

\* The loop over self.metrics, in the order of the list; an exception ends it and
\* leaves the later accumulators as they were.
Metrics_update(self, predicted_logits, target_indices) ==
    LET c == CategoricalAccuracy_update(self.categorical, predicted_logits, target_indices)
        t == [k \in TopKs |->
                 TopKAccuracy_update(self.topk[k], k, predicted_logits, target_indices)]
        catRaises == c.raised # "none"
        topRaises(k) == \E j \in TopKs : j <= k /\ t[j].raised # "none"
    IN  [raised |-> IF catRaises THEN c.raised
                    ELSE IF \E k \in TopKs : topRaises(k) THEN "RuntimeError"
                    ELSE "none",
         self |->
            [accuracy |-> Accuracy_update(self.accuracy, predicted_logits, target_indices),
             categorical |-> c.self,
             loss |-> IF catRaises THEN self.loss
                      ELSE Loss_update(self.loss, predicted_logits, target_indices),
             jsd |-> IF catRaises THEN self.jsd
                     ELSE JensenShannon_update(self.jsd, predicted_logits, target_indices),
             topk |-> [k \in TopKs |->
                          IF catRaises \/ topRaises(k) THEN self.topk[k] ELSE t[k].self]]]

\* The merged report, or the exception of the first accumulator whose report
\* raises; results.update(None) raises TypeError.
Metrics_call(self) ==
    LET a == Accuracy_call(self.accuracy)
        c == CategoricalAccuracy_call(self.categorical)
        l == Loss_call(self.loss)
        j == JensenShannon_call(self.jsd)
        t == [k \in TopKs |-> TopKAccuracy_call(self.topk[k])]
    IN  IF IsRaised(a) THEN a
        ELSE IF c = None THEN [kind |-> "TypeError"]
        ELSE IF IsRaised(l) THEN l
        ELSE IF IsRaised(j) THEN j
        ELSE IF \E k \in TopKs : IsRaised(t[k]) THEN [kind |-> "ZeroDivisionError"]
        ELSE [kind |-> "dict", accuracy |-> a, categorical |-> c.val,
              loss |-> l, jsd |-> j, topk |-> t]

-----------------------------------------------------------------------------
(* The evaluation loop's use of Metrics: update, report, reset *)

\* Rows of predicted logits over five classes, the least TopKAccuracy(k=5)
\* accepts.  The first two order their classes as the two rows of the Top3 check
\* at the end of metrics.py do ([0.55, 0.16, 0.05, 0.1, 0.14] and
\* [0.2, 0.25, 0.11, 0.35, 0.09]); the third has two maximal classes.  No row has
\* equal scores at the k-th place for k = 2, 3 or 5.
Top3First == <<16, 14, 0, 7, 11>>
Top3Second == <<11, 14, 7, 16, 0>>
TwoMaxima == <<0, 16, 7, 11, 16>>

\* The rows the batches are made of: logits with a target class, or with the
\* ignore sentinel.
Rows ==
    { [logits |-> Top3First, target |-> 1],
      [logits |-> Top3Second, target |-> 4],
      [logits |-> TwoMaxima, target |-> 1],
      [logits |-> TwoMaxima, target |-> 4],
      [logits |-> Top3First, target |-> IGNORE],
      [logits |-> TwoMaxima, target |-> IGNORE] }

\* (predicted_logits, target_indices) of the rows, flattened [N, 5] and [N]
Batch(rows) ==
    [predicted_logits |-> [C |-> 5, data |-> [i \in 1..Len(rows) |-> rows[i].logits]],
     target_indices |-> [i \in 1..Len(rows) |-> rows[i].target]]

RECURSIVE DropIgnored(_)
DropIgnored(rows) ==
    IF rows = <<>> THEN <<>>
    ELSE (IF Head(rows).target = IGNORE THEN <<>> ELSE <<Head(rows)>>)
             \o DropIgnored(Tail(rows))

NoReport == [kind |-> "none"]

MetricsInit ==
    /\ metrics = Metrics_reset
    /\ twin = Metrics_reset
    /\ fed = <<>>
    /\ lastBatch = None
    /\ prev = Metrics_reset
    /\ report = NoReport
    /\ resets = 0

\* metrics.update(predicted_logits, target_indices) on a batch of rows
Update ==
    \E n \in 0..MaxBatch : \E rows \in [1..n -> Rows] :
        /\ Len(fed) + n <= MaxRows
        /\ LET b == Batch(rows)
               r == Metrics_update(metrics, b.predicted_logits, b.target_indices)
               f == Batch(DropIgnored(rows))
           IN  /\ metrics' = r.self
               /\ report' = IF r.raised = "none" THEN NoReport ELSE [kind |-> r.raised]
               /\ twin' = Metrics_update(twin, f.predicted_logits, f.target_indices).self
        /\ fed' = fed \o rows
        /\ lastBatch' = Some(rows)
        /\ prev' = metrics
        /\ resets' = 0
        /\ UNCHANGED <<catVars, jsVars, ctcVars>>

\* metrics()
Report ==
    /\ report' = Metrics_call(metrics)
    /\ UNCHANGED <<metrics, twin, fed, lastBatch, prev, resets, catVars, jsVars, ctcVars>>

\* metrics.reset()
Reset ==
    /\ resets < 2
    /\ metrics' = Metrics_reset
    /\ twin' = Metrics_reset
    /\ fed' = <<>>
    /\ lastBatch' = None
    /\ prev' = Metrics_reset
    /\ report' = NoReport
    /\ resets' = resets + 1
    /\ UNCHANGED <<catVars, jsVars, ctcVars>>

CatIdle ==
    /\ cat = CategoricalAccuracy_reset
    /\ catPrev = CategoricalAccuracy_reset
    /\ catBatch = None
    /\ catRaised = "none"
    /\ catUpdates = 0

JsIdle ==
    /\ jsIn = None
    /\ jsOut = [first |-> None, second |-> None, stacked |-> None]

CtcIdle ==
    /\ ctcIn = None
    /\ ctc = None

Init == MetricsInit /\ CatIdle /\ JsIdle /\ CtcIdle

Next == Update \/ Report \/ Reset

Spec == Init /\ [][Next]_vars

-----------------------------------------------------------------------------
(* Properties of the accumulators under Spec *)

\* class c has the greatest score of the row and no earlier class has it too
IsArgmax(logits, c) ==
    /\ c \in 0..(Len(logits) - 1)
    /\ \A j \in 1..Len(logits) : logits[j] <= logits[c + 1]
    /\ \A j \in 1..c : logits[j] < logits[c + 1]

\* fewer than k classes score higher than class c
InTopK(logits, c, k) ==
    /\ c \in 0..(Len(logits) - 1)
    /\ Cardinality({j \in 1..Len(logits) : logits[j] > logits[c + 1]}) < k

CorrectRows(rows) ==
    {i \in 1..Len(rows) : rows[i].target # IGNORE /\ IsArgmax(rows[i].logits, rows[i].target)}

LabelledRows(rows) == {i \in 1..Len(rows) : rows[i].target # IGNORE}

AllIgnored(rows) == \A i \in 1..Len(rows) : rows[i].target = IGNORE

\* C1: since the last reset, Accuracy.true_positives is the number of rows given
\* to update whose target is not the ignore sentinel and is the arg-max of the
\* row, Accuracy.count is the number of rows whose target is not the sentinel,
\* the report is their quotient (nan for 0/0 after an update), and an update
\* whose targets are all the sentinel leaves both numbers as they were.
C1_AccuracyCounts ==
    LET tp == metrics.accuracy.true_positives.v
        n == metrics.accuracy.count.v
    IN  /\ tp = Cardinality(CorrectRows(fed))
        /\ n = Cardinality(LabelledRows(fed))
        /\ report.kind = "dict" =>
              IF n = 0 THEN report.accuracy.kind = "nan"
              ELSE /\ report.accuracy.kind = "float"
                   /\ report.accuracy.num * n = report.accuracy.den * tp
        /\ (lastBatch # None /\ AllIgnored(lastBatch.val)) =>
              /\ tp = prev.accuracy.true_positives.v
              /\ n = prev.accuracy.count.v

\* Two labelled rows, one of them right, then a batch of one ignored row, then
\* the report.
C1_Witness ==
    /\ report.kind = "dict"
    /\ lastBatch # None /\ Len(lastBatch.val) = 1 /\ AllIgnored(lastBatch.val)
    /\ metrics.accuracy.true_positives.v = 1
    /\ metrics.accuracy.count.v = 2

\* C2: rows whose target is the ignore sentinel count in no accumulator of
\* Metrics: the aggregate is in the state of one fed the same batches with those
\* rows taken out.
C2_IgnoredRowsNeverCount == metrics = twin

\* C3: after every update of Accuracy and CategoricalAccuracy on the same
\* batches, the totals of the classes add up to true_positives and the counts of
\* the classes add up to count.
C3_CategoricalSums ==
    lastBatch # None =>
        /\ metrics.categorical.totals # None
        /\ metrics.categorical.counts # None
        /\ SumSeq(metrics.categorical.totals.val) = metrics.accuracy.true_positives.v
        /\ SumSeq(metrics.categorical.counts.val) = metrics.accuracy.count.v

\* Three rows in: one ignored, two labelled of which one is right.
C3_Witness ==
    /\ lastBatch # None
    /\ Len(fed) = 3
    /\ \E i \in 1..Len(fed) : fed[i].target = IGNORE
    /\ SumSeq(metrics.categorical.totals.val) = 1
    /\ SumSeq(metrics.categorical.counts.val) = 2

\* the two rows of the Top3 check of metrics.py, targets 1 and 4
Top3Example ==
    << [logits |-> Top3First, target |-> 1], [logits |-> Top3Second, target |-> 4] >>

\* C4: an update of TopKAccuracy on N rows adds N to count, ignored rows
\* included, and adds to correct_in_top_k the number of rows whose target is
\* among the k highest-scoring classes of the row; on the two rows of the Top3
\* check, from reset, correct_in_top_k is 1 and count is 2.
C4_TopKCounts ==
    lastBatch # None =>
        /\ \A k \in TopKs :
              /\ metrics.topk[k].count.v = prev.topk[k].count.v + Len(lastBatch.val)
              /\ metrics.topk[k].correct_in_top_k.v =
                    prev.topk[k].correct_in_top_k.v
                    + Cardinality({i \in 1..Len(lastBatch.val) :
                          InTopK(lastBatch.val[i].logits, lastBatch.val[i].target, k)})
        /\ (lastBatch.val = Top3Example /\ prev = Metrics_reset) =>
              /\ metrics.topk[3].correct_in_top_k.v = 1
              /\ metrics.topk[3].count.v = 2

\* The Top3 check itself.
C4_Witness ==
    /\ lastBatch = Some(Top3Example)
    /\ fed = Top3Example
    /\ metrics.topk[3].correct_in_top_k.v = 1
    /\ metrics.topk[3].count.v = 2

\* C7: after one or two resets in a row every accumulator is as constructed,
\* and the report asked for then yields a result.
C7_ResetThenReport ==
    resets >= 1 =>
        /\ metrics = Metrics_reset
        /\ report # NoReport => ~IsRaised(report)

\* the numerators and denominators of the counting accumulators
Counting(m) ==
    [true_positives |-> m.accuracy.true_positives.v,
     count |-> m.accuracy.count.v,
     correct_in_top_k |-> [k \in TopKs |-> m.topk[k].correct_in_top_k.v],
     topk_count |-> [k \in TopKs |-> m.topk[k].count.v],
     totals |-> m.categorical.totals.val,
     counts |-> m.categorical.counts.val]

\* the counting accumulators as constructed
CountingReset ==
    [accuracy |-> Accuracy_reset,
     categorical |-> CategoricalAccuracy_reset,
     topk |-> [k \in TopKs |-> TopKAccuracy_reset]]

\* the element-wise sum of two such states
CountingSum(a, b) ==
    [true_positives |-> a.true_positives + b.true_positives,
     count |-> a.count + b.count,
     correct_in_top_k |-> [k \in TopKs |-> a.correct_in_top_k[k] + b.correct_in_top_k[k]],
     topk_count |-> [k \in TopKs |-> a.topk_count[k] + b.topk_count[k]],
     totals |-> [c \in 1..Len(a.totals) |-> a.totals[c] + b.totals[c]],
     counts |-> [c \in 1..Len(a.counts) |-> a.counts[c] + b.counts[c]]]

\* the counting accumulators m after update of each on the rows as one batch
Updated(m, rows) ==
    LET b == Batch(rows)
    IN  [accuracy |-> Accuracy_update(m.accuracy, b.predicted_logits, b.target_indices),
         categorical |-> CategoricalAccuracy_update(m.categorical, b.predicted_logits,
                                                    b.target_indices).self,
         topk |-> [k \in TopKs |->
                      TopKAccuracy_update(m.topk[k], k, b.predicted_logits,
                                          b.target_indices).self]]

\* C10: the counting accumulators are additive over the batch stream.  However
\* the rows fed since reset were batched, and for every split of them into a
\* head A and a tail B, the numerators and denominators are those of reset;
\* update(A); update(B), those of reset; update(A ++ B), and the element-wise sum
\* of those of one instance updated with A and another updated with B.
C10_AdditiveOverBatches ==
    lastBatch # None =>
        \A i \in 0..Len(fed) :
            LET A == SubSeq(fed, 1, i)
                B == SubSeq(fed, i + 1, Len(fed))
            IN  /\ Counting(metrics) = Counting(Updated(Updated(CountingReset, A), B))
                /\ Counting(metrics) = Counting(Updated(CountingReset, fed))
                /\ Counting(metrics) = CountingSum(Counting(Updated(CountingReset, A)),
                                                   Counting(Updated(CountingReset, B)))

\* Three rows given in two updates, with a hit among them.
C10_Witness ==
    /\ lastBatch # None
    /\ Len(fed) = 3
    /\ Len(lastBatch.val) = 1
    /\ metrics.accuracy.true_positives.v >= 1
    /\ metrics.topk[2].correct_in_top_k.v >= 1

-----------------------------------------------------------------------------
(* A CategoricalAccuracy used on its own, with batches of several class counts *)

\* rows of logits over C classes with their targets, for C = 1, 2, 3
CatRows(C) ==
    CASE C = 1 -> { [logits |-> <<0>>, target |-> 0] }
      [] C = 2 -> { [logits |-> <<7, 0>>, target |-> 0],
                    [logits |-> <<0, 7>>, target |-> 0],
                    [logits |-> <<0, 7>>, target |-> IGNORE] }
      [] C = 3 -> { [logits |-> <<0, 7, 11>>, target |-> 2],
                    [logits |-> <<11, 7, 0>>, target |-> 2] }

CatClassCounts == {1, 2, 3}

\* (predicted_logits, target_indices) of the rows, flattened [N, C] and [N]
CatBatchOf(C, rows) ==
    [predicted_logits |-> [C |-> C, data |-> [i \in 1..Len(rows) |-> rows[i].logits]],
     target_indices |-> [i \in 1..Len(rows) |-> rows[i].target]]

CatInit ==
    /\ cat = CategoricalAccuracy_reset
    /\ catPrev = CategoricalAccuracy_reset
    /\ catBatch = None
    /\ catRaised = "none"
    /\ catUpdates = 0

\* cat.update(predicted_logits, target_indices); an exception leaves cat as the
\* statements before it left it
CatUpdate ==
    \E C \in CatClassCounts : \E n \in 1..MaxCatBatch : \E rows \in [1..n -> CatRows(C)] :
        /\ catUpdates < MaxCatUpdates
        /\ LET b == CatBatchOf(C, rows)
               r == CategoricalAccuracy_update(cat, b.predicted_logits, b.target_indices)
           IN  /\ cat' = r.self
               /\ catRaised' = r.raised
               /\ catBatch' = Some(b)
        /\ catPrev' = cat
        /\ catUpdates' = catUpdates + 1
        /\ UNCHANGED <<metricsVars, jsVars, ctcVars>>

\* cat.reset()
CatReset ==
    /\ catUpdates > 0
    /\ cat' = CategoricalAccuracy_reset
    /\ catPrev' = cat
    /\ catBatch' = None
    /\ catRaised' = "none"
    /\ catUpdates' = 0
    /\ UNCHANGED <<metricsVars, jsVars, ctcVars>>

InitCat == MetricsInit /\ CatInit /\ JsIdle /\ CtcIdle

NextCat == CatUpdate \/ CatReset

SpecCat == InitCat /\ [][NextCat]_vars

\* C8: once the first update since reset has fixed the class count, an update
\* with another class count ends in an error and leaves totals and counts as
\* they were.
C8_ClassCountMismatchRaises ==
    (/\ catBatch # None
     /\ catPrev.totals # None
     /\ catBatch.val.predicted_logits.C # Len(catPrev.totals.val)) =>
        /\ catRaised # "none"
        /\ cat = catPrev

-----------------------------------------------------------------------------
(* jensenShannonDivergence on two batches and on the two stacked *)

\* rows of probabilities, in tenths
ProbRows == { <<2, 4, 4>>, <<4, 4, 2>>, <<10, 0, 0>> }

\* rows of log-probabilities, in tenths
LogProbRows == { <<-16, -9, -9>>, <<-9, -9, -16>>, <<-5, -16, -16>> }

JsdRows(as_logits) == IF as_logits THEN LogProbRows ELSE ProbRows

\* the [N, 3] tensor of the p (or the q) of a tuple of pairs
JsdTensor(pairs, side) ==
    [C |-> 3, data |-> [i \in 1..Len(pairs) |-> pairs[i][side]]]

JsdInit ==
    /\ \E as_logits \in BOOLEAN :
       \E n1 \in 0..MaxJsdRows : \E n2 \in 0..MaxJsdRows :
       \E first \in [1..n1 -> JsdRows(as_logits) \X JsdRows(as_logits)] :
       \E second \in [1..n2 -> JsdRows(as_logits) \X JsdRows(as_logits)] :
           jsIn = Some([first |-> first, second |-> second, as_logits |-> as_logits])
    /\ jsOut = [first |-> None, second |-> None, stacked |-> None]

jsdOf(pairs) ==
    jensenShannonDivergence(JsdTensor(pairs, 1), JsdTensor(pairs, 2), jsIn.val.as_logits)

\* jensenShannonDivergence(P1, Q1)
JsdFirst ==
    /\ jsOut.first = None
    /\ jsOut' = [jsOut EXCEPT !.first = Some(jsdOf(jsIn.val.first))]
    /\ UNCHANGED <<jsIn, metricsVars, catVars, ctcVars>>

\* jensenShannonDivergence(P2, Q2)
JsdSecond ==
    /\ jsOut.first # None
    /\ jsOut.second = None
    /\ jsOut' = [jsOut EXCEPT !.second = Some(jsdOf(jsIn.val.second))]
    /\ UNCHANGED <<jsIn, metricsVars, catVars, ctcVars>>

\* jensenShannonDivergence(P1 ++ P2, Q1 ++ Q2)
JsdStacked ==
    /\ jsOut.second # None
    /\ jsOut.stacked = None
    /\ jsOut' = [jsOut EXCEPT !.stacked = Some(jsdOf(jsIn.val.first \o jsIn.val.second))]
    /\ UNCHANGED <<jsIn, metricsVars, catVars, ctcVars>>

InitJsd == MetricsInit /\ CatIdle /\ JsdInit /\ CtcIdle

NextJsd == JsdFirst \/ JsdSecond \/ JsdStacked

SpecJsd == InitJsd /\ [][NextJsd]_vars

\* C9: the divergence of two stacked batches is the sum of the divergences of
\* the two.
C9_JsdAdditive ==
    jsOut.stacked # None =>
        jsOut.stacked.val = jsOut.first.val + jsOut.second.val

\* Two batches of one row each, each with a divergence above zero.
C9_Witness ==
    /\ jsOut.stacked # None
    /\ Len(jsIn.val.first) = 1 /\ Len(jsIn.val.second) = 1
    /\ jsOut.first.val > 0 /\ jsOut.second.val > 0
    /\ jsOut.first.val # jsOut.second.val

-----------------------------------------------------------------------------
(* The CTC backend: _backend(predicted_logits), BATCH x DIMS x TIME *)

\* the rows of the batch
BatchIdx == {0, 1}

\* the channels: the classes 0..39 and the blank class
Channels == 0..BLANK

\* The scores of one timestep by the class that wins it: class 0, class 1 or the
\* blank class.  Every other channel scores 0.
ColumnKinds == {"zero", "one", "blank"}

ColumnScore(kind, c) ==
    CASE kind = "zero"  -> (IF c = 0 THEN 9 ELSE IF c = 1 THEN 4 ELSE IF c = BLANK THEN 2 ELSE 0)
      [] kind = "one"   -> (IF c = 0 THEN 3 ELSE IF c = 1 THEN 8 ELSE IF c = BLANK THEN 1 ELSE 0)
      [] kind = "blank" -> (IF c = 0 THEN 3 ELSE IF c = 1 THEN 4 ELSE IF c = BLANK THEN 7 ELSE 0)

\* The tensor whose timestep t of row b is of kind kinds[b][t]; each timestep is
\* shifted by its own amount, so that no two hold the same scores.
CtcTensor(kinds, T) ==
    [b \in BatchIdx |-> [c \in Channels |-> [t \in 0..(T - 1) |->
        ColumnScore(kinds[b][t], c) + 10 * t + 100 * b]]]

TimeOf(x) == Cardinality(DOMAIN x[0][0])

\* x[i] for a Python index: a negative index counts from the end
PyIndex(i, n) == IF i < 0 THEN i + n ELSE i

\* predicted_logits.argmax(dim=1)
argmax_dim1(x) ==
    [b \in BatchIdx |-> [t \in 0..(TimeOf(x) - 1) |->
        CHOOSE c \in Channels :
            /\ \A d \in Channels : x[b][d][t] <= x[b][c][t]
            /\ \A d \in 0..(c - 1) : x[b][d][t] < x[b][c][t]]]

\* torch.argwhere(predictions == 40): the (batch, time) pairs in row-major order
RECURSIVE argwhere_blank(_, _, _)
argwhere_blank(predictions, T, k) ==
    IF k >= Cardinality(BatchIdx) * T THEN <<>>
    ELSE (IF predictions[k \div T][k % T] = BLANK THEN << <<k \div T, k % T>> >> ELSE <<>>)
             \o argwhere_blank(predictions, T, k + 1)

\* the loop body adding the blank score to the previous class's score
backend_step_sum(frame, batch, time) ==
    LET T == TimeOf(frame.predicted_logits)
        previous_timestep_max == frame.predictions[batch][PyIndex(time - 1, T)]
    IN  [frame EXCEPT
            !.predictions[batch][time] = frame.predictions[batch][PyIndex(time - 1, T)],
            !.predicted_logits[batch][previous_timestep_max][time] =
                @ + frame.predicted_logits[batch][BLANK][time]]

\* the loop body writing the blank score into every row of the batch
backend_step_all_rows(frame, batch, time) ==
    LET T == TimeOf(frame.predicted_logits)
        previous_timestep_max == frame.predictions[batch][PyIndex(time - 1, T)]
    IN  [frame EXCEPT
            !.predictions[batch][time] = frame.predictions[batch][PyIndex(time - 1, T)],
            !.predicted_logits =
                [b \in BatchIdx |->
                    [@[b] EXCEPT ![previous_timestep_max][time] =
                        frame.predicted_logits[batch][BLANK][time]]]]

\* the body of the loop over blank_indices, for one (batch, time)
backend_step(frame, batch, time) ==
    LET T == TimeOf(frame.predicted_logits)
        previous_timestep_max == frame.predictions[batch][PyIndex(time - 1, T)]
    IN  [frame EXCEPT
            !.predictions[batch][time] = frame.predictions[batch][PyIndex(time - 1, T)],
            !.predicted_logits[batch][previous_timestep_max][time] =
                frame.predicted_logits[batch][BLANK][time]]

\* predicted_logits[:, :-1, :]
drop_last_channel(x) ==
    [b \in BatchIdx |-> [c \in 0..(BLANK - 1) |-> x[b][c]]]

CtcInit ==
    /\ \E T \in 1..MaxTime : \E kinds \in [BatchIdx -> [0..(T - 1) -> ColumnKinds]] :
           ctcIn = Some(CtcTensor(kinds, T))
    /\ ctc = None

\* the call: the arg-max of every timestep and the places of the blank ones
CtcCall ==
    /\ ctc = None
    /\ LET predictions == argmax_dim1(ctcIn.val)
       IN  ctc' = Some([predicted_logits |-> ctcIn.val,
                        predictions |-> predictions,
                        blank_indices |-> argwhere_blank(predictions, TimeOf(ctcIn.val), 0),
                        i |-> 1,
                        returned |-> None])
    /\ UNCHANGED <<ctcIn, metricsVars, catVars, jsVars>>

\* one turn of the loop
CtcStep ==
    /\ ctc # None
    /\ ctc.val.i <= Len(ctc.val.blank_indices)
    /\ LET at == ctc.val.blank_indices[ctc.val.i]
       IN  ctc' = Some([backend_step(ctc.val, at[1], at[2]) EXCEPT !.i = @ + 1])
    /\ UNCHANGED <<ctcIn, metricsVars, catVars, jsVars>>

\* the return of the tensor without its blank channel
CtcReturn ==
    /\ ctc # None
    /\ ctc.val.i > Len(ctc.val.blank_indices)
    /\ ctc.val.returned = None
    /\ ctc' = Some([ctc.val EXCEPT !.returned = Some(drop_last_channel(ctc.val.predicted_logits))])
    /\ UNCHANGED <<ctcIn, metricsVars, catVars, jsVars>>

InitCtc == MetricsInit /\ CatIdle /\ JsIdle /\ CtcInit

NextCtc == CtcCall \/ CtcStep \/ CtcReturn

SpecCtc == InitCtc /\ [][NextCtc]_vars

CtcReturned == ctc # None /\ ctc.val.returned # None

\* the blank class is the arg-max of timestep t of row b of the input
BlankWins(b, t) ==
    \A c \in 0..(BLANK - 1) : ctcIn.val[b][c][t] < ctcIn.val[b][BLANK][t]

\* the output is the input at timestep t of row b
SameColumn(b, t) ==
    \A c \in 0..(BLANK - 1) : ctc.val.returned.val[b][c][t] = ctcIn.val[b][c][t]

\* C5 as stated: at a blank timestep t > 0 the predicted class is that of t - 1,
\* and the output holds, in the channel of that class, the input's blank score
\* of t.
C5_BlankTakesPrevious ==
    CtcReturned =>
        \A b \in BatchIdx : \A t \in 1..(TimeOf(ctcIn.val) - 1) :
            BlankWins(b, t) =>
                LET previous == ctc.val.predictions[b][t - 1]
                IN  /\ ctc.val.predictions[b][t] = previous
                    /\ previous \in DOMAIN ctc.val.returned.val[b]
                    /\ ctc.val.returned.val[b][previous][t] = ctcIn.val[b][BLANK][t]

\* C5 amended: at a blank timestep t > 0 the predicted class is that of t - 1;
\* when that class is not the blank class, the output holds the input's blank
\* score of t in its channel and the input's scores in the other channels; when
\* it is the blank class, the output has no channel for it and timestep t is
\* returned as it came.
C5_BlankTakesPreviousClass ==
    CtcReturned =>
        \A b \in BatchIdx : \A t \in 1..(TimeOf(ctcIn.val) - 1) :
            BlankWins(b, t) =>
                LET previous == ctc.val.predictions[b][t - 1]
                IN  /\ ctc.val.predictions[b][t] = previous
                    /\ previous # BLANK =>
                          /\ ctc.val.returned.val[b][previous][t] = ctcIn.val[b][BLANK][t]
                          /\ \A c \in 0..(BLANK - 1) \ {previous} :
                                ctc.val.returned.val[b][c][t] = ctcIn.val[b][c][t]
                    /\ previous = BLANK => SameColumn(b, t)

\* A row whose timesteps 1 and 2 are both blank after a timestep won by a class.
C5_Witness ==
    /\ CtcReturned
    /\ \E b \in BatchIdx :
          /\ TimeOf(ctcIn.val) = 3
          /\ ~BlankWins(b, 0) /\ BlankWins(b, 1) /\ BlankWins(b, 2)
          /\ ctc.val.predictions[b][2] = ctc.val.predictions[b][0]
          /\ ctc.val.predictions[b][2] # BLANK

\* C6: a row of the batch with no blank timestep is returned as it came, less
\* the blank channel, whatever the other rows hold.
C6_RowWithoutBlankUnchanged ==
    CtcReturned =>
        \A b \in BatchIdx :
            (\A t \in 0..(TimeOf(ctcIn.val) - 1) : ~BlankWins(b, t)) =>
                \A t \in 0..(TimeOf(ctcIn.val) - 1) : SameColumn(b, t)

\* Row 0 has no blank timestep, row 1 has one that was rewritten.
C6_Witness ==
    /\ CtcReturned
    /\ \A t \in 0..(TimeOf(ctcIn.val) - 1) : ~BlankWins(0, t)
    /\ \E t \in 1..(TimeOf(ctcIn.val) - 1) : BlankWins(1, t) /\ ~SameColumn(1, t)

=============================================================================
